---- MODULE Spec2Model ----
(***************************************************************************)
(* Model of src/lib/escpos.ts: the WebUSBPrinter device session (connect,  *)
(* findOutEndpoint, openAndClaim, print, disconnect, getDeviceInfo) over a *)
(* WebUSB transport whose calls may resolve or reject, the ESC/POS         *)
(* encoder ESCPOSBuilder, and buildReceipt with the arithmetic of its      *)
(* amounts.                                                                *)
(*                                                                         *)
(* print and disconnect are async functions: each is modelled as the code  *)
(* run from one await to the next.  A transport call is "issued" when it   *)
(* is appended to calls with result "pending", and "completed" by the      *)
(* action that resolves or rejects its promise and runs the continuation   *)
(* up to the next await.                                                   *)
(***************************************************************************)
EXTENDS Integers, Sequences, FiniteSets, TLC

VARIABLES
    device,     \* WebUSBPrinter.device: a device id, or NoDevice for null
    usb,        \* transport state of each USBDevice: opened, configuration, claimed
    pc,         \* position of the print call
    endpoint,   \* print's local `endpoint` (PrinterEndpoint or Null)
    target,     \* openAndClaim's parameter `device`
    data,       \* print's parameter `data`
    outcome,    \* value returned by the last print call
    calls,      \* transport calls issued by the running session operation
    dpc,        \* position of the disconnect call
    caller,     \* who called openAndClaim: print, or the user of the class
    ifnum,      \* openAndClaim's parameter `interfaceNumber`
    desc,       \* argument of a stand-alone findOutEndpoint call
    found,      \* result of that call
    builderData,\* ESCPOSBuilder.data of the encoder under study
    twin,       \* data of a second encoder, constructed when the first was last
                \* constructed or reset, that is given the same appending calls
    built,      \* the array the last build() returned
    lastOp,     \* name of the last encoder operation called
    returned,   \* what that operation returned: the encoder itself ("this"),
                \* or the array of build ("array")
    nops,       \* number of encoder operations called
    receiptArgs,\* arguments of a buildReceipt call
    receipt     \* the bytes that call returned

encoderVars == <<builderData, twin, built, lastOp, returned, nops>>

receiptVars == <<receiptArgs, receipt>>

vars == <<device, usb, pc, endpoint, target, data, outcome, calls, dpc, caller, ifnum,
          desc, found, encoderVars, receiptVars>>

sessionVars == <<device, usb, pc, endpoint, target, data, outcome, calls, dpc, caller, ifnum>>

-----------------------------------------------------------------------------
(* Bounds *)

MaxData == 2            \* longest byte sequence handed to print
MaxInterfaces == 2      \* most interfaces of a generated configuration
MaxAlternates == 2      \* most alternates of a generated interface
MaxEndpoints == 2       \* most endpoints of a generated alternate
MaxTotal == 4           \* most endpoints of a generated configuration
MaxOps == 3             \* most operations called on one encoder
MaxFeed == 2            \* largest line count given to feed
MaxQrLen == 300         \* longest QR payload, in bytes
MaxItems == 2           \* most items of a receipt

-----------------------------------------------------------------------------
(* Values *)

NoDevice == "null"

Null == [isNull |-> TRUE]

NoConfiguration == 0    \* USBDevice.configuration undefined

Bytes == {27, 64}

DataSet == UNION {[1..n -> Bytes] : n \in 0..MaxData}

Messages == {"NetworkError", "InvalidStateError"}

Statuses == {"ok", "stall"}

-----------------------------------------------------------------------------
(* ESC/POS commands and ESCPOSBuilder, lines 3-148.  The encoder's buffer   *)
(* `data` is a sequence of numbers; a string is the sequence of its code    *)
(* points.  Each method is the function from the buffer before the call to  *)
(* the buffer after it.                                                     *)

ESC == 27

GS == 29

LF == 10

TextAlign == [LEFT |-> 0, CENTER |-> 1, RIGHT |-> 2]

TextSize == [NORMAL |-> 0, DOUBLE_HEIGHT |-> 16, DOUBLE_WIDTH |-> 32, DOUBLE_BOTH |-> 48]

CutType == [FULL |-> 0, PARTIAL |-> 1]

\* the values of an enum
Members(enum) == {enum[k] : k \in DOMAIN enum}

\* UTF-8 encoding of one code point
Utf8(cp) ==
    IF cp < 128 THEN <<cp>>
    ELSE IF cp < 2048 THEN <<192 + (cp \div 64), 128 + (cp % 64)>>
    ELSE IF cp < 65536
         THEN <<224 + (cp \div 4096), 128 + ((cp \div 64) % 64), 128 + (cp % 64)>>
    ELSE <<240 + (cp \div 262144), 128 + ((cp \div 4096) % 64),
           128 + ((cp \div 64) % 64), 128 + (cp % 64)>>

\* new TextEncoder().encode(s): the encodings of the code points of s, in
\* order (s is split in halves to keep the evaluation shallow)
RECURSIVE TextEncoderEncode(_)
TextEncoderEncode(s) ==
    IF s = <<>> THEN <<>>
    ELSE IF Len(s) = 1 THEN Utf8(s[1])
    ELSE LET h == Len(s) \div 2
         IN  TextEncoderEncode(SubSeq(s, 1, h)) \o TextEncoderEncode(SubSeq(s, h + 1, Len(s)))

\* String.prototype.repeat
Repeat(s, n) ==
    IF n <= 0 \/ s = <<>> THEN <<>>
    ELSE [i \in 1..(n * Len(s)) |-> s[((i - 1) % Len(s)) + 1]]

\* new Uint8Array(numbers): every element is taken modulo 2^8
Uint8Array(numbers) == [i \in DOMAIN numbers |-> numbers[i] % 256]

\* variant: initialize emits nothing
initializeOmitted(d) == d

\* lines 33-36
initialize(d) == d \o <<ESC, 64>>

\* new ESCPOSBuilder(), lines 26-30
NewBuilder == initialize(<<>>)

\* variant: align emits the command of textSize
alignAsTextSize(d, alignment) == d \o <<ESC, 33, alignment>>

\* lines 39-42
align(d, alignment) == d \o <<ESC, 97, alignment>>

\* lines 45-48
textSize(d, size) == d \o <<ESC, 33, size>>

\* lines 51-54
bold(d, enabled) == d \o <<ESC, 69, IF enabled THEN 1 ELSE 0>>

\* lines 57-60
underline(d, mode) == d \o <<ESC, 45, mode>>

\* lines 63-67
text(d, str) == d \o TextEncoderEncode(str)

\* lines 70-74
line(d, str) == text(d, str) \o <<LF>>

\* variant: the loop body runs before its condition is tested
feedAtLeastOnce(d, lines) == d \o Repeat(<<LF>>, IF lines <= 1 THEN 1 ELSE lines)

\* lines 77-82
RECURSIVE feed(_, _)
feed(d, lines) == IF lines <= 0 THEN d ELSE feed(d, lines - 1) \o <<LF>>

\* lines 85-88
drawLine(d, char, length) == line(d, Repeat(char, length))

\* lines 91-102
barcode(d, str, height) ==
    d \o <<GS, 104, height>> \o <<GS, 119, 2>> \o <<GS, 107, 4>>
      \o TextEncoderEncode(str) \o <<0>>

\* lines 105-123
qrCode(d, str, size) ==
    LET qrData == TextEncoderEncode(str)
        len == Len(qrData)
        pL == len % 256
        pH == len \div 256
    IN  d \o <<GS, 40, 107, 4, 0, 49, 65, 50, 0>>
          \o <<GS, 40, 107, 3, 0, 49, 67, size>>
          \o <<GS, 40, 107, 3, 0, 49, 69, 48>>
          \o <<GS, 40, 107, pL + 3, pH, 49, 80, 48>>
          \o qrData
          \o <<GS, 40, 107, 3, 0, 49, 81, 48>>

\* lines 126-129
openDrawer(d) == d \o <<ESC, 112, 0, 50, 255>>

\* lines 132-135
cut(d, type) == d \o <<GS, 86, type>>

\* variant: build hands out the buffer itself
buildShared(d) == [shared |-> TRUE, bytes |-> d]

\* lines 138-140: a new array holding a copy of the buffer
build(d) == [shared |-> FALSE, bytes |-> Uint8Array(d)]

\* variant: reset re-initializes without emptying the buffer
resetKeeping(d) == initialize(d)

\* lines 143-147
reset(d) == initialize(<<>>)

-----------------------------------------------------------------------------
(* Numbers.  quantity, price, tax, subtotal and grandTotal are JavaScript    *)
(* Numbers: binary floating point with a 53-bit significand, every          *)
(* operation rounded to nearest, ties to even.  A Number x >= 0 is the      *)
(* record [m, e] with x = m * 2^e, m odd or zero.  m is a natural of any     *)
(* size, held as the sequence of its digits in base 2^15, lowest first,     *)
(* so that no intermediate value exceeds a 32-bit integer.                  *)

Base == 2^15

\* without high zero digits
RECURSIVE Norm(_)
Norm(x) ==
    IF x = <<>> THEN <<>>
    ELSE IF x[Len(x)] = 0 THEN Norm(SubSeq(x, 1, Len(x) - 1))
    ELSE x

\* the natural n as digits
RECURSIVE Big(_)
Big(n) == IF n = 0 THEN <<>> ELSE <<n % Base>> \o Big(n \div Base)

\* the digits x as a natural (x is small)
RECURSIVE Small(_)
Small(x) == IF x = <<>> THEN 0 ELSE x[1] + Base * Small(Tail(x))

RECURSIVE AddCarry(_, _, _)
AddCarry(x, y, c) ==
    IF x = <<>> /\ y = <<>> THEN Big(c)
    ELSE LET sum == (IF x = <<>> THEN 0 ELSE x[1]) + (IF y = <<>> THEN 0 ELSE y[1]) + c
         IN  <<sum % Base>> \o AddCarry(IF x = <<>> THEN <<>> ELSE Tail(x),
                                        IF y = <<>> THEN <<>> ELSE Tail(y),
                                        sum \div Base)

Add(x, y) == Norm(AddCarry(x, y, 0))

RECURSIVE MulCarry(_, _, _)
MulCarry(x, k, c) ==
    IF x = <<>> THEN Big(c)
    ELSE LET p == x[1] * k + c
         IN  <<p % Base>> \o MulCarry(Tail(x), k, p \div Base)

\* x * k for a natural k < Base
MulSmall(x, k) == Norm(MulCarry(x, k, 0))

\* x * Base^n
ShiftDigits(x, n) == IF x = <<>> THEN <<>> ELSE [i \in 1..n |-> 0] \o x

\* x * 2^n
Shl(x, n) == ShiftDigits(MulSmall(x, 2^(n % 15)), n \div 15)

RECURSIVE Mul(_, _)
Mul(x, y) ==
    IF y = <<>> THEN <<>>
    ELSE Add(MulSmall(x, y[1]), ShiftDigits(Mul(x, Tail(y)), 1))

\* quotient and remainder of x by a natural 0 < k < Base
RECURSIVE DivRem(_, _)
DivRem(x, k) ==
    IF x = <<>> THEN [q |-> <<>>, r |-> 0]
    ELSE LET high == DivRem(Tail(x), k)
             cur == high.r * Base + x[1]
         IN  [q |-> <<cur \div k>> \o high.q, r |-> cur % k]

\* binary digit i of x, the lowest being digit 0
Bit(x, i) ==
    IF (i \div 15) + 1 > Len(x) THEN 0
    ELSE (x[(i \div 15) + 1] \div 2^(i % 15)) % 2

\* number of binary digits of x
BitLen(x) ==
    IF x = <<>> THEN 0
    ELSE 15 * (Len(x) - 1) +
         (CHOOSE b \in 1..15 : 2^(b - 1) <= x[Len(x)] /\ x[Len(x)] < 2^b)

\* floor(x / 2^n)
Shr(x, n) ==
    LET y == SubSeq(x, (n \div 15) + 1, Len(x))
        r == n % 15
    IN  Norm([i \in 1..Len(y) |->
                 (y[i] \div 2^r) +
                 (IF i < Len(y) THEN (y[i + 1] % 2^r) * 2^(15 - r) ELSE 0)])

Zero == [m |-> <<>>, e |-> 0]

\* m * 2^e with m odd
Canonical(m, e) ==
    IF m = <<>> THEN Zero
    ELSE LET t == CHOOSE i \in 0..(BitLen(m) - 1) :
                      Bit(m, i) = 1 /\ \A j \in 0..(i - 1) : Bit(m, j) = 0
         IN  [m |-> Shr(m, t), e |-> e + t]

\* the Number nearest to m * 2^e, ties to even
RoundToNumber(m, e) ==
    IF BitLen(m) <= 53 THEN Canonical(m, e)
    ELSE LET s == BitLen(m) - 53
             q == Shr(m, s)
             up == /\ Bit(m, s - 1) = 1
                   /\ \/ \E j \in 0..(s - 2) : Bit(m, j) = 1
                      \/ Bit(q, 0) = 1
         IN  Canonical(IF up THEN Add(q, <<1>>) ELSE q, e + s)

\* the Number a decimal numeral denotes: the one nearest to n / 10^k
FromDecimal(n, k) ==
    LET d == DivRem(Shl(Big(n), 80), 10^k)
    IN  RoundToNumber(Add(MulSmall(Norm(d.q), 2), IF d.r = 0 THEN <<>> ELSE <<1>>), -81)

\* a * b
NumberTimes(a, b) == RoundToNumber(Mul(a.m, b.m), a.e + b.e)

\* a + b
NumberPlus(a, b) ==
    LET e == IF a.e < b.e THEN a.e ELSE b.e
    IN  RoundToNumber(Add(Shl(a.m, a.e - e), Shl(b.m, b.e - e)), e)

\* a > 0
Positive(a) == a.m # <<>>

\* decimal digits of a natural
RECURSIVE Digits(_)
Digits(n) == IF n < 10 THEN <<48 + n>> ELSE Digits(n \div 10) \o <<48 + (n % 10)>>

\* the integer n for which n / 100 is nearest to a, the larger of two
\* (Number.prototype.toFixed, fractionDigits = 2)
Hundredths(a) ==
    IF a.e >= 0 THEN Small(MulSmall(Shl(a.m, a.e), 100))
    ELSE Small(Shr(Add(MulSmall(a.m, 200), Shl(<<1>>, -a.e)), 1 - a.e))

\* a.toFixed(2)
toFixed2(a) ==
    LET n == Hundredths(a)
    IN  Digits(n \div 100) \o <<46, 48 + ((n % 100) \div 10), 48 + (n % 10)>>

-----------------------------------------------------------------------------
(* buildReceipt, lines 158-219.  An item is [name, quantity, price]: name   *)
(* a string, quantity a natural, price a decimal numeral [n, k] standing    *)
(* for the Number nearest to n / 10^k; tax is a numeral too.  The text      *)
(* new Date().toLocaleString() gives is the parameter `now`.                *)

\* the Number a numeral stands for
NumberOf(numeral) == FromDecimal(numeral.n, numeral.k)

\* String.prototype.padEnd(n), padding with spaces
padEnd(str, n) ==
    IF Len(str) >= n THEN str ELSE str \o [i \in 1..(n - Len(str)) |-> 32]

\* variant: the line total is the unit price
lineTotalUnitPrice(item) == NumberOf(item.price)

\* line 182
lineTotal(item) == NumberTimes(FromDecimal(item.quantity, 0), NumberOf(item.price))

\* line 184: `${item.name.padEnd(18)} ${item.quantity}x ${item.price.toFixed(2)}`
itemLine(item) ==
    padEnd(item.name, 18) \o <<32>> \o Digits(item.quantity) \o <<120, 32>>
        \o toFixed2(NumberOf(item.price))

\* lines 181-187: the items from index i on, with the encoder buffer d and
\* the subtotal accumulated so far
RECURSIVE ItemsFrom(_, _, _, _)
ItemsFrom(items, i, d, subtotal) ==
    IF i > Len(items) THEN [data |-> d, subtotal |-> subtotal]
    ELSE LET total == lineTotal(items[i])
             d1 == line(d, itemLine(items[i]))
             d2 == align(line(align(d1, TextAlign.RIGHT), <<36>> \o toFixed2(total)),
                         TextAlign.LEFT)
         IN  ItemsFrom(items, i + 1, d2, NumberPlus(subtotal, total))

\* variant: the total is the sum of the amounts as displayed
grandTotalOfDisplayed(subtotal, tax) ==
    FromDecimal(Hundredths(subtotal) + Hundredths(tax), 2)

\* line 199
grandTotal(subtotal, tax) == NumberPlus(subtotal, tax)

\* lines 166-177
Header(d, storeName, now) ==
    LET d1 == line(bold(textSize(align(d, TextAlign.CENTER), TextSize.DOUBLE_BOTH), TRUE),
                   storeName)
        d2 == line(textSize(bold(d1, FALSE), TextSize.NORMAL), now)
    IN  align(drawLine(feed(d2, 1), <<61>>, 32), TextAlign.LEFT)

\* lines 190-207; the labels are 'Subtotal: $', 'Tax: $', 'TOTAL: $' and
\* 'Payment: '
Totals(d, subtotal, tax, payment) ==
    LET d1 == line(align(drawLine(d, <<45>>, 32), TextAlign.RIGHT),
                   <<83, 117, 98, 116, 111, 116, 97, 108, 58, 32, 36>>
                       \o toFixed2(subtotal))
        d2 == IF Positive(tax)
              THEN line(d1, <<84, 97, 120, 58, 32, 36>> \o toFixed2(tax))
              ELSE d1
        d3 == line(bold(textSize(d2, TextSize.DOUBLE_HEIGHT), TRUE),
                   <<84, 79, 84, 65, 76, 58, 32, 36>>
                       \o toFixed2(grandTotal(subtotal, tax)))
        d4 == line(bold(textSize(d3, TextSize.NORMAL), FALSE),
                   <<80, 97, 121, 109, 101, 110, 116, 58, 32>> \o payment)
    IN  drawLine(d4, <<61>>, 32)

\* variant: the paper is cut before it is fed
FooterCutBeforeFeed(d) ==
    LET d1 == line(feed(align(d, TextAlign.CENTER), 1),
                   <<84, 104, 97, 110, 107, 32, 121, 111, 117, 32, 102, 111, 114, 32, 121,
                     111, 117, 114, 32, 98, 117, 115, 105, 110, 101, 115, 115, 33>>)
        d2 == line(d1, <<86, 105, 115, 105, 116, 32, 117, 115, 32, 97, 103, 97, 105, 110,
                         32, 115, 111, 111, 110>>)
    IN  feed(cut(d2, CutType.FULL), 3)

\* lines 210-216; the lines are 'Thank you for your business!' and
\* 'Visit us again soon'
Footer(d) ==
    LET d1 == line(feed(align(d, TextAlign.CENTER), 1),
                   <<84, 104, 97, 110, 107, 32, 121, 111, 117, 32, 102, 111, 114, 32, 121,
                     111, 117, 114, 32, 98, 117, 115, 105, 110, 101, 115, 115, 33>>)
        d2 == line(d1, <<86, 105, 115, 105, 116, 32, 117, 115, 32, 97, 103, 97, 105, 110,
                         32, 115, 111, 111, 110>>)
    IN  cut(feed(d2, 3), CutType.FULL)

buildReceipt(storeName, items, tax, payment, now) ==
    LET listed == ItemsFrom(items, 1, Header(NewBuilder, storeName, now), Zero)
    IN  build(Footer(Totals(listed.data, listed.subtotal, NumberOf(tax), payment))).bytes

-----------------------------------------------------------------------------
(* USB descriptors (USBDevice.configurations) *)

Endpoint(n, dir) == [endpointNumber |-> n, direction |-> dir]

Alternate(s, eps) == [alternateSetting |-> s, endpoints |-> eps]

Interface(n, alts) == [interfaceNumber |-> n, alternates |-> alts]

Configuration(v, ifaces) == [configurationValue |-> v, interfaces |-> ifaces]

\* The devices the session is exercised with.
Devices == {"composite", "bare", "inputOnly", "config2"}

Descriptor ==
    [d \in Devices |->
       CASE d = "composite" ->
              [vendorId |-> 1046, productId |-> 20497, productName |-> "POS-80",
               manufacturerName |-> "Acme", serialNumber |-> "0001",
               configurations |-> <<Configuration(1, <<
                   Interface(0, <<Alternate(0, <<Endpoint(1, "in")>>),
                                  Alternate(1, <<>>)>>),
                   Interface(1, <<Alternate(0, <<Endpoint(2, "in")>>),
                                  Alternate(1, <<Endpoint(3, "in"), Endpoint(4, "out"),
                                                 Endpoint(5, "out")>>)>>)>>)>>]
         [] d = "bare" ->
              [vendorId |-> 1155, productId |-> 1, configurations |-> <<>>]
         [] d = "inputOnly" ->
              [vendorId |-> 1155, productId |-> 2,
               configurations |-> <<Configuration(1, <<
                   Interface(0, <<Alternate(0, <<Endpoint(1, "in")>>)>>)>>)>>]
         [] d = "config2" ->
              [vendorId |-> 1155, productId |-> 3, productName |-> "TM-20",
               configurations |-> <<Configuration(2, <<
                   Interface(0, <<Alternate(0, <<Endpoint(1, "out")>>)>>)>>)>>]]

-----------------------------------------------------------------------------
(* WebUSBPrinter.findOutEndpoint *)

\* alt.endpoints?.find((e) => e.direction === 'out'), scanning from index k
RECURSIVE FindOut(_, _)
FindOut(eps, k) ==
    IF k > Len(eps) THEN Null
    ELSE IF eps[k].direction = "out" THEN eps[k]
    ELSE FindOut(eps, k + 1)

\* variant: only the first alternate of an interface is searched
ScanAlternatesFirstOnly(iface, a) ==
    IF Len(iface.alternates) = 0 THEN Null
    ELSE LET e == FindOut(iface.alternates[1].endpoints, 1)
         IN  IF e # Null
             THEN [iface |-> iface, endpointNumber |-> e.endpointNumber]
             ELSE Null

\* for (const alt of iface.alternates), from index a
RECURSIVE ScanAlternates(_, _)
ScanAlternates(iface, a) ==
    IF a > Len(iface.alternates) THEN Null
    ELSE LET e == FindOut(iface.alternates[a].endpoints, 1)
         IN  IF e # Null
             THEN [iface |-> iface, endpointNumber |-> e.endpointNumber]
             ELSE ScanAlternates(iface, a + 1)

\* for (const iface of config.interfaces), from index i
RECURSIVE ScanInterfaces(_, _)
ScanInterfaces(config, i) ==
    IF i > Len(config.interfaces) THEN Null
    ELSE LET r == ScanAlternates(config.interfaces[i], 1)
         IN  IF r # Null THEN r ELSE ScanInterfaces(config, i + 1)

\* variant: interface 0, endpoint 1 is assumed when the search finds nothing
findOutEndpointFallback(dev) ==
    LET fallback == [iface |-> Interface(0, <<>>), endpointNumber |-> 1]
    IN  IF Len(dev.configurations) = 0 THEN fallback
        ELSE LET r == ScanInterfaces(dev.configurations[1], 1)
             IN  IF r # Null THEN r ELSE fallback

findOutEndpoint(dev) ==
    IF Len(dev.configurations) = 0 THEN Null
    ELSE ScanInterfaces(dev.configurations[1], 1)

-----------------------------------------------------------------------------
(* Transport calls *)

Call(op, d, arg) ==
    [op |-> op, dev |-> d, arg |-> arg, result |-> "pending", msg |-> "", bytesWritten |-> 0]

\* the promise of the last issued call resolves with a status and a byte count
Resolved(log, status, n) ==
    [log EXCEPT ![Len(log)].result = status, ![Len(log)].bytesWritten = n]

\* the promise of the last issued call rejects with an error of message m
Rejected(log, m) ==
    [log EXCEPT ![Len(log)].result = "threw", ![Len(log)].msg = m]

Ops(log) == [i \in 1..Len(log) |-> log[i].op]

\* effect of a resolved call on the USBDevice it was issued to
Effect(c) ==
    CASE c.op = "open" -> [usb EXCEPT ![c.dev].opened = TRUE]
      [] c.op = "close" -> [usb EXCEPT ![c.dev].opened = FALSE, ![c.dev].claimed = {}]
      [] c.op = "selectConfiguration" ->
            [usb EXCEPT ![c.dev].configuration = c.arg]
      [] c.op = "claimInterface" ->
            [usb EXCEPT ![c.dev].claimed = usb[c.dev].claimed \cup {c.arg}]
      [] OTHER -> usb

Last(log) == log[Len(log)]

-----------------------------------------------------------------------------
(* WebUSBPrinter.print: results *)

\* variant: the wrong failure is reported for a missing device
NoDeviceOutcomeWrongText == [success |-> FALSE, error |-> <<"No OUT endpoint found">>]

NoDeviceOutcome == [success |-> FALSE, error |-> <<"No device connected">>]

NoEndpointOutcome == [success |-> FALSE, error |-> <<"No OUT endpoint found">>]

\* the template literal `Transfer status: ${result.status}`
StatusText(status) == <<"Transfer status: ", status>>

\* variant: the status of the transfer is not examined
MapResultUnchecked(result) == [success |-> TRUE, bytesWritten |-> result.bytesWritten]

\* lines 332-336
MapResult(result) ==
    IF result.status = "ok"
    THEN [success |-> TRUE, bytesWritten |-> result.bytesWritten]
    ELSE [success |-> FALSE, error |-> StatusText(result.status)]

\* line 339: error?.message ?? String(err)
ErrorOutcome(m) == [success |-> FALSE, error |-> <<m>>]

\* message of the TypeError raised by a method call on a null this.device
NullDeviceMessage == "TypeError"

NoOutcome == [pending |-> TRUE]

-----------------------------------------------------------------------------
(* WebUSBPrinter.print and openAndClaim: the code between two awaits.  Each *)
(* operator takes the log of calls as settled so far and sets pc, outcome   *)
(* and calls.                                                               *)

\* return of print (or of openAndClaim called on its own)
Return(r, log) ==
    /\ pc' = "returned"
    /\ outcome' = r
    /\ calls' = log

\* an error leaves the async function: its promise rejects
Raise(m, log) ==
    /\ pc' = "raised"
    /\ outcome' = NoOutcome
    /\ calls' = log

\* variant: print has no outer try/catch
CatchMissing(m, log) == Raise(m, log)

\* the outer catch of print, lines 337-340
Catch(m, log) == Return(ErrorOutcome(m), log)

Await(c, log) ==
    /\ pc' = c.op
    /\ outcome' = NoOutcome
    /\ calls' = Append(log, c)

\* line 330
IssueTransfer(ep, log) ==
    IF device = NoDevice
    THEN Catch(NullDeviceMessage, log)
    ELSE Await(Call("transferOut", device, ep.endpointNumber), log)

\* variant: no inner try/catch, a priming failure reaches the outer catch
InnerCatchMissing(m, ep, log) == Catch(m, log)

\* the inner catch of print, lines 326-328
InnerCatch(m, ep, log) == IssueTransfer(ep, log)

\* lines 315-325
IssuePriming(ep, log) ==
    IF device = NoDevice
    THEN InnerCatch(NullDeviceMessage, ep, log)
    ELSE Await(Call("controlTransferOut", device, ep.iface.interfaceNumber), log)

\* variant: the interface is not claimed, the priming transfer comes at once
IssueClaimSkipped(d, n, log) == Await(Call("controlTransferOut", d, n), log)

\* line 297
IssueClaim(d, n, log) == Await(Call("claimInterface", d, n), log)

\* variant: a configuration is selected only when none is active
NeedsSelectOnlyUnconfigured(u, d) ==
    u[d].configuration = NoConfiguration /\ Len(Descriptor[d].configurations) > 0

\* line 292
NeedsSelect(u, d) ==
    u[d].configuration # 1 /\ Len(Descriptor[d].configurations) > 0

\* lines 292-297
SelectOrClaim(u, d, n, log) ==
    IF NeedsSelect(u, d)
    THEN Await(Call("selectConfiguration", d, 1), log)
    ELSE IssueClaim(d, n, log)

\* line 287
NeedsOpen(u, d) == ~u[d].opened

\* openAndClaim up to its first await, lines 286-297
openAndClaim(u, d, n, log) ==
    IF NeedsOpen(u, d)
    THEN Await(Call("open", d, 0), log)
    ELSE SelectOrClaim(u, d, n, log)

\* an error leaves openAndClaim (it has no try): print catches it at line 337,
\* a direct caller gets the rejection
OpenAndClaimThrows(m, log) ==
    IF caller = "print" THEN Catch(m, log) ELSE Raise(m, log)

\* openAndClaim returns: print continues at line 315
OpenAndClaimReturns(log) ==
    IF caller = "print" THEN IssuePriming(endpoint, log) ELSE Return(NoOutcome, log)

-----------------------------------------------------------------------------
(* Session operations *)

\* no session operation is in flight
Quiescent ==
    /\ pc \in {"idle", "returned", "raised"}
    /\ dpc \in {"idle", "resolved", "rejected"}

NoLocals ==
    /\ endpoint' = Null
    /\ target' = NoDevice
    /\ ifnum' = 0

\* variant: connect closes the device it replaces
ConnectClosingPrevious(d) ==
    /\ Quiescent
    /\ device' = d
    /\ pc' = "idle"
    /\ dpc' = "idle"
    /\ caller' = "none"
    /\ outcome' = NoOutcome
    /\ calls' = <<>>
    /\ data' = <<>>
    /\ NoLocals
    /\ usb' = IF device # NoDevice /\ device # d
              THEN [usb EXCEPT ![device].opened = FALSE]
              ELSE usb
    /\ UNCHANGED <<desc, found, encoderVars, receiptVars>>

\* connect(device), lines 262-264
Connect(d) ==
    /\ Quiescent
    /\ device' = d
    /\ pc' = "idle"
    /\ dpc' = "idle"
    /\ caller' = "none"
    /\ outcome' = NoOutcome
    /\ calls' = <<>>
    /\ data' = <<>>
    /\ NoLocals
    /\ UNCHANGED <<usb, desc, found, encoderVars, receiptVars>>

\* requestDevice(filters) when the user picks d, lines 248-259
RequestDevice(d) ==
    /\ Quiescent
    /\ device' = d
    /\ pc' = "idle"
    /\ dpc' = "idle"
    /\ caller' = "none"
    /\ outcome' = NoOutcome
    /\ calls' = <<>>
    /\ data' = <<>>
    /\ NoLocals
    /\ UNCHANGED <<usb, desc, found, encoderVars, receiptVars>>

\* print(data) up to its first await or its return, lines 301-312
PrintStart(bytes) ==
    /\ Quiescent
    /\ dpc' = "idle"
    /\ caller' = "print"
    /\ data' = bytes
    /\ IF device = NoDevice
       THEN /\ Return(NoDeviceOutcome, <<>>)
            /\ NoLocals
       ELSE LET ep == findOutEndpoint(Descriptor[device])
            IN  IF ep = Null
                THEN /\ Return(NoEndpointOutcome, <<>>)
                     /\ NoLocals
                ELSE /\ endpoint' = ep
                     /\ target' = device
                     /\ ifnum' = ep.iface.interfaceNumber
                     /\ openAndClaim(usb, device, ep.iface.interfaceNumber, <<>>)
    /\ UNCHANGED <<device, usb, desc, found, encoderVars, receiptVars>>

\* openAndClaim(device, n) called on its own with the session's device
OpenAndClaimStart(n) ==
    /\ Quiescent
    /\ device # NoDevice
    /\ dpc' = "idle"
    /\ caller' = "openAndClaim"
    /\ data' = <<>>
    /\ endpoint' = Null
    /\ target' = device
    /\ ifnum' = n
    /\ openAndClaim(usb, device, n, <<>>)
    /\ UNCHANGED <<device, usb, desc, found, encoderVars, receiptVars>>

\* device.open() resolves; openAndClaim continues at line 292
OpenResolved ==
    /\ pc = "open"
    /\ usb' = Effect(Last(calls))
    /\ SelectOrClaim(usb', target, ifnum, Resolved(calls, "ok", 0))
    /\ UNCHANGED <<device, endpoint, target, ifnum, data, dpc, caller,
                   desc, found, encoderVars, receiptVars>>

\* variant: a failed open is swallowed and openAndClaim goes on
OpenRejectedSwallowed(m) ==
    /\ pc = "open"
    /\ SelectOrClaim(usb, target, ifnum, Rejected(calls, m))
    /\ UNCHANGED <<device, usb, endpoint, target, ifnum, data, dpc, caller,
                   desc, found, encoderVars, receiptVars>>

\* device.open() rejects; the error leaves openAndClaim
OpenRejected(m) ==
    /\ pc = "open"
    /\ OpenAndClaimThrows(m, Rejected(calls, m))
    /\ UNCHANGED <<device, usb, endpoint, target, ifnum, data, dpc, caller,
                   desc, found, encoderVars, receiptVars>>

\* device.selectConfiguration(1) resolves; openAndClaim continues at line 297
SelectResolved ==
    /\ pc = "selectConfiguration"
    /\ usb' = Effect(Last(calls))
    /\ IssueClaim(target, ifnum, Resolved(calls, "ok", 0))
    /\ UNCHANGED <<device, endpoint, target, ifnum, data, dpc, caller,
                   desc, found, encoderVars, receiptVars>>

\* device.selectConfiguration(1) rejects; the error leaves openAndClaim
SelectRejected(m) ==
    /\ pc = "selectConfiguration"
    /\ OpenAndClaimThrows(m, Rejected(calls, m))
    /\ UNCHANGED <<device, usb, endpoint, target, ifnum, data, dpc, caller,
                   desc, found, encoderVars, receiptVars>>

\* device.claimInterface(n) resolves; openAndClaim returns
ClaimResolved ==
    /\ pc = "claimInterface"
    /\ usb' = Effect(Last(calls))
    /\ OpenAndClaimReturns(Resolved(calls, "ok", 0))
    /\ UNCHANGED <<device, endpoint, target, ifnum, data, dpc, caller,
                   desc, found, encoderVars, receiptVars>>

\* device.claimInterface(n) rejects; the error leaves openAndClaim
ClaimRejected(m) ==
    /\ pc = "claimInterface"
    /\ OpenAndClaimThrows(m, Rejected(calls, m))
    /\ UNCHANGED <<device, usb, endpoint, target, ifnum, data, dpc, caller,
                   desc, found, encoderVars, receiptVars>>

\* the priming controlTransferOut resolves (its result is not read), line 330 follows
ControlResolved(status) ==
    /\ pc = "controlTransferOut"
    /\ IssueTransfer(endpoint, Resolved(calls, status, 0))
    /\ UNCHANGED <<device, usb, endpoint, target, ifnum, data, dpc, caller,
                   desc, found, encoderVars, receiptVars>>

\* the priming controlTransferOut rejects: inner catch, lines 326-328
ControlRejected(m) ==
    /\ pc = "controlTransferOut"
    /\ InnerCatch(m, endpoint, Rejected(calls, m))
    /\ UNCHANGED <<device, usb, endpoint, target, ifnum, data, dpc, caller,
                   desc, found, encoderVars, receiptVars>>

\* variant: print closes the device once the transfer has settled
TransferResolvedClosing(status, n) ==
    /\ pc = "transferOut"
    /\ Return(MapResult([status |-> status, bytesWritten |-> n]), Resolved(calls, status, n))
    /\ usb' = [usb EXCEPT ![target].opened = FALSE, ![target].claimed = {}]
    /\ UNCHANGED <<device, endpoint, target, ifnum, data, dpc, caller,
                   desc, found, encoderVars, receiptVars>>

\* transferOut resolves with a status and a byte count, lines 330-336
TransferResolved(status, n) ==
    /\ pc = "transferOut"
    /\ Return(MapResult([status |-> status, bytesWritten |-> n]), Resolved(calls, status, n))
    /\ UNCHANGED <<device, usb, endpoint, target, ifnum, data, dpc, caller,
                   desc, found, encoderVars, receiptVars>>

\* variant: a rejected transferOut is issued once more before print gives up
TransferRejectedRetried(m) ==
    /\ pc = "transferOut"
    /\ IF Cardinality({i \in DOMAIN calls : calls[i].op = "transferOut"}) < 2
       THEN IssueTransfer(endpoint, Rejected(calls, m))
       ELSE Catch(m, Rejected(calls, m))
    /\ UNCHANGED <<device, usb, endpoint, target, ifnum, data, dpc, caller,
                   desc, found, encoderVars, receiptVars>>

\* transferOut rejects: outer catch, lines 337-340
TransferRejected(m) ==
    /\ pc = "transferOut"
    /\ Catch(m, Rejected(calls, m))
    /\ UNCHANGED <<device, usb, endpoint, target, ifnum, data, dpc, caller,
                   desc, found, encoderVars, receiptVars>>

\* line 345
NeedsClose(u, d) == d # NoDevice /\ u[d].opened

\* line 348
ClearDevice == device' = NoDevice

\* disconnect() up to its await or its return, lines 344-349
DisconnectStart ==
    /\ Quiescent
    /\ pc' = "idle"
    /\ caller' = "none"
    /\ outcome' = NoOutcome
    /\ data' = <<>>
    /\ NoLocals
    /\ IF NeedsClose(usb, device)
       THEN /\ dpc' = "close"
            /\ calls' = <<Call("close", device, 0)>>
            /\ UNCHANGED device
       ELSE /\ dpc' = "resolved"
            /\ calls' = <<>>
            /\ ClearDevice
    /\ UNCHANGED <<usb, desc, found, encoderVars, receiptVars>>

\* device.close() resolves; disconnect continues at line 348
CloseResolved ==
    /\ dpc = "close"
    /\ usb' = Effect(Last(calls))
    /\ calls' = Resolved(calls, "ok", 0)
    /\ ClearDevice
    /\ dpc' = "resolved"
    /\ UNCHANGED <<pc, endpoint, target, ifnum, data, outcome, caller,
                   desc, found, encoderVars, receiptVars>>

\* device.close() rejects; the error leaves disconnect, line 348 is not reached
CloseRejected(m) ==
    /\ dpc = "close"
    /\ calls' = Rejected(calls, m)
    /\ dpc' = "rejected"
    /\ UNCHANGED <<device, usb, pc, endpoint, target, ifnum, data, outcome, caller,
                   desc, found, encoderVars, receiptVars>>

\* a print call is waiting on the transport: the event loop is free to run
\* another call on the same session
Suspended ==
    /\ caller = "print"
    /\ pc \notin {"idle", "returned", "raised"}

\* connect(device) called while print is suspended, lines 262-264: it runs to
\* its end at once; print's locals and its pending call are untouched
ConnectSuspended(d) ==
    /\ Suspended
    /\ dpc # "close"
    /\ device' = d
    /\ UNCHANGED <<usb, pc, endpoint, target, data, outcome, calls, dpc, caller, ifnum,
                   desc, found, encoderVars, receiptVars>>

\* disconnect() called while print is suspended, up to its await or its
\* return, lines 344-349; close is issued to the stored device, and the log of
\* print's calls is untouched
DisconnectSuspended ==
    /\ Suspended
    /\ dpc # "close"
    /\ IF NeedsClose(usb, device)
       THEN /\ dpc' = "close"
            /\ UNCHANGED device
       ELSE /\ dpc' = "resolved"
            /\ ClearDevice
    /\ UNCHANGED <<usb, pc, endpoint, target, data, outcome, calls, caller, ifnum,
                   desc, found, encoderVars, receiptVars>>

\* the close() issued by that disconnect settles, lines 346-348: resolved, the
\* device is closed, its interfaces are released and line 348 clears the
\* stored device; rejected, the error leaves disconnect.  No connect runs
\* while the close is pending, so the stored device is the one being closed.
CloseSettled(ok) ==
    /\ dpc = "close"
    /\ caller = "print"
    /\ device # NoDevice
    /\ IF ok
       THEN /\ usb' = [usb EXCEPT ![device].opened = FALSE, ![device].claimed = {}]
            /\ ClearDevice
            /\ dpc' = "resolved"
       ELSE /\ dpc' = "rejected"
            /\ UNCHANGED <<device, usb>>
    /\ UNCHANGED <<pc, endpoint, target, data, outcome, calls, caller, ifnum,
                   desc, found, encoderVars, receiptVars>>

\* the properties of PrinterInfo; the optional ones are present in a
\* snapshot when the device has them
InfoFields == {"productName", "manufacturerName", "vendorId", "productId", "serialNumber"}

\* getDeviceInfo(), lines 352-362
getDeviceInfo ==
    IF device = NoDevice THEN Null
    ELSE [f \in InfoFields \cap DOMAIN Descriptor[device] |-> Descriptor[device][f]]

-----------------------------------------------------------------------------
(* Calls on an encoder *)

\* no array returned yet
NoArray == [shared |-> FALSE, bytes |-> <<>>]

\* what is read from an array handed out by build
Contents(b) == IF b.shared THEN builderData ELSE b.bytes

\* no buildReceipt call made
NoReceipt == [called |-> FALSE]

\* the arguments buildReceipt is first given: no items, tax = 0, payment = 'CASH'
InitReceipt ==
    /\ receiptArgs =
         [storeName |-> <<83, 104, 111, 112>>,     \* 'Shop'
          items |-> <<>>,
          tax |-> [n |-> 0, k |-> 0],
          payment |-> <<67, 65, 83, 72>>,          \* 'CASH'
          now |-> <<49, 49, 47, 51, 47, 50, 48, 50, 54,
                   44, 32, 57, 58, 52, 49, 58, 48, 48, 32, 80, 77>>]
                                                   \* '11/3/2026, 9:41:00 PM'
    /\ receipt = NoReceipt

InitEncoder ==
    /\ builderData = NewBuilder
    /\ twin = NewBuilder
    /\ built = NoArray
    /\ lastOp = [name |-> "new"]
    /\ returned = "this"
    /\ nops = 0

\* a chainable method that pushes onto this.data: `after` is the buffer it
\* leaves, `twinAfter` what the same call leaves on the second encoder
Appends(call, after, twinAfter) ==
    /\ nops < MaxOps
    /\ builderData' = after
    /\ twin' = twinAfter
    /\ lastOp' = call
    /\ returned' = "this"
    /\ nops' = nops + 1
    /\ UNCHANGED <<sessionVars, desc, found, receiptVars, built>>

Initialize ==
    Appends([name |-> "initialize"],
            initialize(builderData), initialize(twin))

Align(alignment) ==
    Appends([name |-> "align", arg |-> alignment],
            align(builderData, alignment), align(twin, alignment))

SetTextSize(size) ==
    Appends([name |-> "textSize", arg |-> size],
            textSize(builderData, size), textSize(twin, size))

Bold(enabled) ==
    Appends([name |-> "bold", arg |-> enabled],
            bold(builderData, enabled), bold(twin, enabled))

Underline(mode) ==
    Appends([name |-> "underline", arg |-> mode],
            underline(builderData, mode), underline(twin, mode))

Text(str) ==
    Appends([name |-> "text", arg |-> str],
            text(builderData, str), text(twin, str))

Line(str) ==
    Appends([name |-> "line", arg |-> str],
            line(builderData, str), line(twin, str))

Feed(lines) ==
    Appends([name |-> "feed", arg |-> lines],
            feed(builderData, lines), feed(twin, lines))

DrawLine(char, length) ==
    Appends([name |-> "drawLine", arg |-> char, length |-> length],
            drawLine(builderData, char, length), drawLine(twin, char, length))

Barcode(str, height) ==
    Appends([name |-> "barcode", arg |-> str, height |-> height],
            barcode(builderData, str, height), barcode(twin, str, height))

QrCode(str, size) ==
    Appends([name |-> "qrCode", arg |-> str, size |-> size],
            qrCode(builderData, str, size), qrCode(twin, str, size))

OpenDrawer ==
    Appends([name |-> "openDrawer"],
            openDrawer(builderData), openDrawer(twin))

Cut(type) ==
    Appends([name |-> "cut", arg |-> type],
            cut(builderData, type), cut(twin, type))

\* build(), lines 138-140
Build ==
    /\ nops < MaxOps
    /\ built' = build(builderData)
    /\ lastOp' = [name |-> "build"]
    /\ returned' = "array"
    /\ nops' = nops + 1
    /\ UNCHANGED <<sessionVars, desc, found, receiptVars, builderData, twin>>

\* reset(), lines 143-147: this.data is bound to a new array, so an array
\* that shared the old buffer keeps what it held
Reset ==
    /\ nops < MaxOps
    /\ builderData' = reset(builderData)
    /\ twin' = NewBuilder
    /\ built' = IF built.shared THEN [shared |-> FALSE, bytes |-> builderData] ELSE built
    /\ lastOp' = [name |-> "reset"]
    /\ returned' = "this"
    /\ nops' = nops + 1
    /\ UNCHANGED <<sessionVars, desc, found, receiptVars>>

-----------------------------------------------------------------------------
(* The session, its operations called one at a time *)

\* a device before the session touches it: closed, and either left
\* unconfigured or configured by the system with one of its configurations
DeviceState(d) ==
    {[opened |-> FALSE, configuration |-> c, claimed |-> {}] :
        c \in {NoConfiguration} \cup
              {Descriptor[d].configurations[i].configurationValue :
                  i \in 1..Len(Descriptor[d].configurations)}}

InitSession ==
    /\ usb \in [Devices -> UNION {DeviceState(d) : d \in Devices}]
    /\ \A d \in Devices : usb[d] \in DeviceState(d)
    /\ pc = "idle"
    /\ dpc = "idle"
    /\ caller = "none"
    /\ endpoint = Null
    /\ target = NoDevice
    /\ ifnum = 0
    /\ data = <<>>
    /\ outcome = NoOutcome
    /\ calls = <<>>

Init ==
    /\ device = NoDevice
    /\ InitSession
    /\ desc = [configurations |-> <<>>]
    /\ found = [called |-> FALSE]
    /\ InitEncoder
    /\ InitReceipt

Completion ==
    \/ OpenResolved
    \/ \E m \in Messages : OpenRejected(m)
    \/ SelectResolved
    \/ \E m \in Messages : SelectRejected(m)
    \/ ClaimResolved
    \/ \E m \in Messages : ClaimRejected(m)
    \/ \E s \in Statuses : ControlResolved(s)
    \/ \E m \in Messages : ControlRejected(m)
    \/ \E s \in Statuses : \E n \in 0..Len(data) : TransferResolved(s, n)
    \/ \E m \in Messages : TransferRejected(m)

CloseCompletion ==
    \/ CloseResolved
    \/ \E m \in Messages : CloseRejected(m)

Next ==
    \/ \E d \in Devices : Connect(d)
    \/ \E d \in Devices : RequestDevice(d)
    \/ \E bytes \in DataSet : PrintStart(bytes)
    \/ DisconnectStart
    \/ Completion
    \/ CloseCompletion

Spec == Init /\ [][Next]_vars

-----------------------------------------------------------------------------
(* One connected device: print, and openAndClaim called on its own         *)

InterfaceNumbers == 0..(MaxInterfaces - 1)

InitClaim ==
    /\ device \in Devices
    /\ InitSession
    /\ \A d \in Devices \ {device} : usb[d].configuration = NoConfiguration
    /\ desc = [configurations |-> <<>>]
    /\ found = [called |-> FALSE]
    /\ InitEncoder
    /\ InitReceipt

NextClaim ==
    \/ \E n \in InterfaceNumbers : OpenAndClaimStart(n)
    \/ \E bytes \in DataSet : PrintStart(bytes)
    \/ Completion

SpecClaim == InitClaim /\ [][NextClaim]_vars

-----------------------------------------------------------------------------
(* One connected device and one print call, with connect and disconnect     *)
(* called while that print is suspended at a transport await                *)

NextInterleaved ==
    \/ \E bytes \in DataSet : pc = "idle" /\ PrintStart(bytes)
    \/ Completion
    \/ \E d \in Devices : ConnectSuspended(d)
    \/ DisconnectSuspended
    \/ \E ok \in BOOLEAN : CloseSettled(ok)

SpecInterleaved == InitClaim /\ [][NextInterleaved]_vars

-----------------------------------------------------------------------------
(* findOutEndpoint applied to every descriptor within the bounds: the       *)
(* descriptor of a device is put together declaration by declaration, and   *)
(* findOutEndpoint is called on what has been declared.  Interface numbers  *)
(* and endpoint numbers follow the position.                                *)

Directions == {"in", "out"}

\* a second configuration, with an OUT endpoint
SecondConfiguration ==
    Configuration(2, <<Interface(0, <<Alternate(0, <<Endpoint(1, "out")>>)>>)>>)

RECURSIVE SumLen(_, _)
SumLen(alts, a) ==
    IF a > Len(alts) THEN 0 ELSE Len(alts[a].endpoints) + SumLen(alts, a + 1)

RECURSIVE SumEndpoints(_, _)
SumEndpoints(ifaces, i) ==
    IF i > Len(ifaces) THEN 0
    ELSE SumLen(ifaces[i].alternates, 1) + SumEndpoints(ifaces, i + 1)

InitFind ==
    /\ device = NoDevice
    /\ usb = [d \in Devices |-> [opened |-> FALSE, configuration |-> NoConfiguration,
                                 claimed |-> {}]]
    /\ pc = "idle"
    /\ dpc = "idle"
    /\ caller = "none"
    /\ endpoint = Null
    /\ target = NoDevice
    /\ ifnum = 0
    /\ data = <<>>
    /\ outcome = NoOutcome
    /\ calls = <<>>
    /\ desc = [configurations |-> <<>>]
    /\ found = [called |-> FALSE]
    /\ InitEncoder
    /\ InitReceipt

\* the device declares its first configuration
AddConfiguration ==
    /\ ~found.called
    /\ Len(desc.configurations) = 0
    /\ desc' = [configurations |-> <<Configuration(1, <<>>)>>]
    /\ UNCHANGED <<sessionVars, found, encoderVars, receiptVars>>

\* the device declares a second configuration
AddSecondConfiguration ==
    /\ ~found.called
    /\ Len(desc.configurations) = 1
    /\ desc' = [configurations |-> Append(desc.configurations, SecondConfiguration)]
    /\ UNCHANGED <<sessionVars, found, encoderVars, receiptVars>>

\* the first configuration declares one more interface
AddInterface ==
    /\ ~found.called
    /\ Len(desc.configurations) > 0
    /\ LET ifaces == desc.configurations[1].interfaces
       IN  /\ Len(ifaces) < MaxInterfaces
           /\ desc' = [desc EXCEPT !.configurations[1].interfaces =
                           Append(ifaces, Interface(Len(ifaces), <<>>))]
    /\ UNCHANGED <<sessionVars, found, encoderVars, receiptVars>>

\* its last interface declares one more alternate
AddAlternate ==
    /\ ~found.called
    /\ Len(desc.configurations) > 0
    /\ LET ifaces == desc.configurations[1].interfaces
           i == Len(ifaces)
       IN  /\ i > 0
           /\ Len(ifaces[i].alternates) < MaxAlternates
           /\ desc' = [desc EXCEPT !.configurations[1].interfaces[i].alternates =
                           Append(ifaces[i].alternates,
                                  Alternate(Len(ifaces[i].alternates), <<>>))]
    /\ UNCHANGED <<sessionVars, found, encoderVars, receiptVars>>

\* its last alternate declares one more endpoint
AddEndpoint(dir) ==
    /\ ~found.called
    /\ Len(desc.configurations) > 0
    /\ LET ifaces == desc.configurations[1].interfaces
           i == Len(ifaces)
       IN  /\ i > 0
           /\ LET alts == ifaces[i].alternates
                  a == Len(alts)
              IN  /\ a > 0
                  /\ Len(alts[a].endpoints) < MaxEndpoints
                  /\ SumEndpoints(ifaces, 1) < MaxTotal
                  /\ desc' = [desc EXCEPT
                                !.configurations[1].interfaces[i].alternates[a].endpoints =
                                   Append(alts[a].endpoints,
                                          Endpoint((a - 1) * (MaxEndpoints + 1)
                                                      + Len(alts[a].endpoints) + 1, dir))]
    /\ UNCHANGED <<sessionVars, found, encoderVars, receiptVars>>

Find ==
    /\ ~found.called
    /\ found' = [called |-> TRUE, result |-> findOutEndpoint(desc)]
    /\ UNCHANGED <<sessionVars, desc, encoderVars, receiptVars>>

NextFind ==
    \/ AddConfiguration
    \/ AddSecondConfiguration
    \/ AddInterface
    \/ AddAlternate
    \/ \E dir \in Directions : AddEndpoint(dir)
    \/ Find

SpecFind == InitFind /\ [][NextFind]_vars

-----------------------------------------------------------------------------
(* One encoder, any sequence of at most MaxOps of its operations *)

Strings == {<<>>, <<65>>, <<233, 8364>>}

InitBuilder ==
    /\ Init
    /\ \A d \in Devices : usb[d].configuration = NoConfiguration

NextBuilder ==
    \/ Initialize
    \/ \E a \in Members(TextAlign) : Align(a)
    \/ \E s \in Members(TextSize) : SetTextSize(s)
    \/ \E b \in BOOLEAN : Bold(b)
    \/ \E m \in 0..2 : Underline(m)
    \/ \E s \in Strings : Text(s)
    \/ \E s \in Strings : Line(s)
    \/ \E n \in 0..MaxFeed : Feed(n)
    \/ \E n \in {0, 32} : DrawLine(<<45>>, n)
    \/ \E h \in {50, 300} : Barcode(<<65>>, h)
    \/ \E s \in {<<>>, <<65>>} : QrCode(s, 6)
    \/ OpenDrawer
    \/ \E t \in Members(CutType) : Cut(t)
    \/ Build
    \/ Reset

SpecBuilder == InitBuilder /\ [][NextBuilder]_vars

-----------------------------------------------------------------------------
(* qrCode on a new encoder, for every payload length up to MaxQrLen *)

NextQr ==
    \/ \E n \in 0..MaxQrLen : nops = 0 /\ QrCode(Repeat(<<65>>, n), 6)
    \/ nops = 1 /\ Build

SpecQr == InitBuilder /\ [][NextQr]_vars

-----------------------------------------------------------------------------
(* buildReceipt applied to every item list within the bounds: the item list *)
(* is put together item by item, the tax is chosen, and buildReceipt is     *)
(* called once on what has been chosen.                                     *)

\* 10.00, 9.995, 1.005, 0.125
Prices == {[n |-> 1000, k |-> 2], [n |-> 9995, k |-> 3], [n |-> 1005, k |-> 3],
           [n |-> 125, k |-> 3]}

\* 0, 0.005, 0.125
Taxes == {[n |-> 0, k |-> 0], [n |-> 5, k |-> 3], [n |-> 125, k |-> 3]}

ReceiptItems == [name : {<<65>>}, quantity : 1..2, price : Prices]

AddItem(item) ==
    /\ receipt = NoReceipt
    /\ Len(receiptArgs.items) < MaxItems
    /\ receiptArgs' = [receiptArgs EXCEPT !.items = Append(@, item)]
    /\ UNCHANGED <<sessionVars, desc, found, encoderVars, receipt>>

SetTax(tax) ==
    /\ receipt = NoReceipt
    /\ receiptArgs.tax # tax
    /\ receiptArgs' = [receiptArgs EXCEPT !.tax = tax]
    /\ UNCHANGED <<sessionVars, desc, found, encoderVars, receipt>>

BuildReceipt ==
    /\ receipt = NoReceipt
    /\ receipt' = [called |-> TRUE,
                   bytes |-> buildReceipt(receiptArgs.storeName, receiptArgs.items,
                                          receiptArgs.tax, receiptArgs.payment,
                                          receiptArgs.now)]
    /\ UNCHANGED <<sessionVars, desc, found, encoderVars, receiptArgs>>

NextReceipt ==
    \/ \E item \in ReceiptItems : AddItem(item)
    \/ \E tax \in Taxes : SetTax(tax)
    \/ BuildReceipt

SpecReceipt == InitBuilder /\ [][NextReceipt]_vars

-----------------------------------------------------------------------------
(* Properties of the device session *)

AwaitOps == {"open", "selectConfiguration", "claimInterface", "controlTransferOut",
             "transferOut"}

\* C1: print on a session whose stored device is null returns
\* {success:false, error:"No device connected"} for every byte sequence and
\* issues no transport call: the call is never found waiting on the transport.
C1_NoDeviceNoTransport ==
    (caller = "print" /\ device = NoDevice) =>
        /\ pc = "returned"
        /\ outcome = [success |-> FALSE, error |-> <<"No device connected">>]
        /\ calls = <<>>

C1_Witness ==
    /\ caller = "print"
    /\ device = NoDevice
    /\ pc = "returned"
    /\ Len(data) > 0

\* C2: print never raises: its promise is never rejected, what it returns is
\* a TransferOutcome, and when open, selectConfiguration, claimInterface or
\* the bulk transferOut threw, the outcome is a failure carrying the message
\* of that exception.
C2_PrintNeverRaises ==
    caller = "print" =>
        /\ pc # "raised"
        /\ pc = "returned" =>
             /\ "success" \in DOMAIN outcome
             /\ outcome.success \in BOOLEAN
             /\ outcome.success => "error" \notin DOMAIN outcome
        /\ \A i \in DOMAIN calls :
             (/\ calls[i].result = "threw"
              /\ calls[i].op \in {"open", "selectConfiguration", "claimInterface",
                                  "transferOut"})
             => /\ pc = "returned"
                /\ outcome = [success |-> FALSE, error |-> <<calls[i].msg>>]

C2_Witness ==
    /\ caller = "print"
    /\ pc = "returned"
    /\ \E i \in DOMAIN calls : calls[i].op = "transferOut" /\ calls[i].result = "threw"

\* what a settled bulk transfer alone determines as the result of print
BulkOutcome(c) ==
    IF c.result = "threw" THEN [success |-> FALSE, error |-> <<c.msg>>]
    ELSE IF c.result = "ok" THEN [success |-> TRUE, bytesWritten |-> c.bytesWritten]
    ELSE [success |-> FALSE, error |-> <<"Transfer status: ", c.result>>]

\* C3: the priming control transfer is best-effort: once it has settled,
\* resolved or thrown, the bulk transferOut is the next call issued, and the
\* value print returns is a function of the bulk transfer's outcome only; a
\* priming failure does not show in the error field.
C3_PrimingBestEffort ==
    caller = "print" =>
        \A i \in DOMAIN calls :
            (calls[i].op = "controlTransferOut" /\ calls[i].result # "pending") =>
                /\ Len(calls) = i + 1
                /\ calls[i + 1].op = "transferOut"
                /\ pc \in {"transferOut", "returned"}
                /\ pc = "returned" =>
                     /\ outcome = BulkOutcome(calls[i + 1])
                     /\ (/\ calls[i].result = "threw"
                         /\ calls[i + 1].msg # calls[i].msg
                         /\ "error" \in DOMAIN outcome)
                        => \A k \in DOMAIN outcome.error : outcome.error[k] # calls[i].msg

C3_Witness ==
    /\ caller = "print"
    /\ pc = "returned"
    /\ outcome.success
    /\ \E i \in DOMAIN calls :
         calls[i].op = "controlTransferOut" /\ calls[i].result = "threw"

Rank(op) ==
    CASE op = "open" -> 1
      [] op = "selectConfiguration" -> 2
      [] op = "claimInterface" -> 3
      [] op = "controlTransferOut" -> 4
      [] op = "transferOut" -> 5
      [] OTHER -> 0

\* C4: within one print call the transport calls come in the order open,
\* selectConfiguration, claimInterface, priming controlTransferOut, bulk
\* transferOut, each issued after the one before has settled; a transfer is
\* issued only after claimInterface resolved in that call, and the bulk
\* transfer only after the priming transfer.
C4_TransportOrder ==
    caller = "print" =>
        /\ \A i \in DOMAIN calls : Rank(calls[i].op) >= 1
        /\ \A i, j \in DOMAIN calls : i < j =>
             /\ Rank(calls[i].op) < Rank(calls[j].op)
             /\ calls[i].result # "pending"
        /\ \A j \in DOMAIN calls :
             calls[j].op \in {"controlTransferOut", "transferOut"} =>
                 \E i \in 1..(j - 1) :
                     calls[i].op = "claimInterface" /\ calls[i].result = "ok"
        /\ \A j \in DOMAIN calls :
             calls[j].op = "transferOut" =>
                 j > 1 /\ calls[j - 1].op = "controlTransferOut"

C4_Witness ==
    /\ caller = "print"
    /\ pc = "returned"
    /\ Ops(calls) = <<"open", "selectConfiguration", "claimInterface",
                      "controlTransferOut", "transferOut">>

\* C5: when the bulk transferOut resolves, status "ok" gives
\* {success:true, bytesWritten: the count of the transfer} and no error; any
\* other status gives {success:false}, an error text that contains the
\* status, and no bytesWritten.
C5_StatusMapping ==
    (/\ caller = "print"
     /\ pc = "returned"
     /\ calls # <<>>
     /\ Last(calls).op = "transferOut"
     /\ Last(calls).result \in Statuses)
    => IF Last(calls).result = "ok"
       THEN outcome = [success |-> TRUE, bytesWritten |-> Last(calls).bytesWritten]
       ELSE /\ DOMAIN outcome = {"success", "error"}
            /\ outcome.success = FALSE
            /\ \E k \in DOMAIN outcome.error : outcome.error[k] = Last(calls).result

C5_Witness ==
    /\ caller = "print"
    /\ pc = "returned"
    /\ calls # <<>>
    /\ Last(calls).op = "transferOut"
    /\ Last(calls).result = "stall"
    /\ Len(data) > 0

\* some alternate of some interface of the first configuration has an OUT endpoint
HasOutEndpoint(dev) ==
    /\ Len(dev.configurations) > 0
    /\ \E i \in DOMAIN dev.configurations[1].interfaces :
         \E a \in DOMAIN dev.configurations[1].interfaces[i].alternates :
           \E k \in DOMAIN dev.configurations[1].interfaces[i].alternates[a].endpoints :
             dev.configurations[1].interfaces[i].alternates[a].endpoints[k].direction = "out"

\* C6: print on a connected device without an OUT endpoint in its first
\* configuration returns the failure "No OUT endpoint found" and issues no
\* transport call.
C6_NoOutEndpoint ==
    (caller = "print" /\ device # NoDevice /\ ~HasOutEndpoint(Descriptor[device])) =>
        /\ pc = "returned"
        /\ outcome = [success |-> FALSE, error |-> <<"No OUT endpoint found">>]
        /\ calls = <<>>

C6_Witness ==
    /\ caller = "print"
    /\ device = "inputOnly"
    /\ pc = "returned"
    /\ usb["bare"].opened = FALSE

\* positions <<interface, alternate, endpoint>> of the OUT endpoints of the
\* first configuration
OutPositions(dev) ==
    IF Len(dev.configurations) = 0 THEN {}
    ELSE LET ifaces == dev.configurations[1].interfaces
         IN  UNION {UNION {{<<i, a, k>> :
                              k \in {e \in DOMAIN ifaces[i].alternates[a].endpoints :
                                       ifaces[i].alternates[a].endpoints[e].direction = "out"}} :
                           a \in DOMAIN ifaces[i].alternates} :
                    i \in DOMAIN ifaces}

\* declaration order of two positions
Precedes(p, q) ==
    \/ p[1] < q[1]
    \/ p[1] = q[1] /\ p[2] < q[2]
    \/ p[1] = q[1] /\ p[2] = q[2] /\ p[3] <= q[3]

\* C7: findOutEndpoint returns the first OUT endpoint in declaration order
\* (interfaces, then alternates, then endpoints) of the first configuration
\* only, with the interface that owns it, and null exactly when there is no
\* first configuration or it has no OUT endpoint.
C7_FirstMatch ==
    found.called =>
        IF OutPositions(desc) = {}
        THEN found.result = Null
        ELSE LET p == CHOOSE q \in OutPositions(desc) :
                          \A r \in OutPositions(desc) : Precedes(q, r)
                 owner == desc.configurations[1].interfaces[p[1]]
             IN  found.result =
                     [iface |-> owner,
                      endpointNumber |->
                          owner.alternates[p[2]].endpoints[p[3]].endpointNumber]

\* only the second alternate of the second of two interfaces has an OUT endpoint
C7_Witness ==
    /\ found.called
    /\ Len(desc.configurations) = 1
    /\ Len(desc.configurations[1].interfaces) = 2
    /\ OutPositions(desc) # {}
    /\ \A p \in OutPositions(desc) : p[1] = 2 /\ p[2] = 2
    /\ found.result # Null
    /\ found.result.iface.interfaceNumber = 1

\* the step settles the call the operation waits on as resolved
Resolves(op) ==
    /\ pc = op
    /\ Len(calls') >= Len(calls)
    /\ calls'[Len(calls)].result = "ok"

\* C8: openAndClaim issues open exactly when the device is not opened;
\* once the device is open it issues selectConfiguration(1) exactly when the
\* active configuration's value is not 1 (none active included) and the
\* device declares a configuration; with these done it issues claimInterface
\* on the interface number it was given.  A print on an open device with
\* configuration 1 active issues claimInterface alone.
C8_OpenAndClaimSteps ==
    [][
        /\ (Quiescent /\ pc' \in AwaitOps) =>
             /\ Len(calls') = 1
             /\ calls'[1].dev = device
             /\ calls'[1].result = "pending"
             /\ (calls'[1].op = "open") <=> ~usb[device].opened
             /\ (calls'[1].op = "selectConfiguration") <=>
                    /\ usb[device].opened
                    /\ usb[device].configuration # 1
                    /\ Len(Descriptor[device].configurations) > 0
             /\ (calls'[1].op = "selectConfiguration") => calls'[1].arg = 1
             /\ (calls'[1].op = "claimInterface") <=>
                    /\ usb[device].opened
                    /\ \/ usb[device].configuration = 1
                       \/ Len(Descriptor[device].configurations) = 0
             /\ (calls'[1].op = "claimInterface") => calls'[1].arg = ifnum'
             /\ caller' = "print" => ifnum' = endpoint'.iface.interfaceNumber
        /\ Resolves("open") =>
             /\ usb'[target].opened
             /\ Len(calls') = Len(calls) + 1
             /\ Last(calls').dev = target
             /\ (Last(calls').op = "selectConfiguration") <=>
                    /\ usb'[target].configuration # 1
                    /\ Len(Descriptor[target].configurations) > 0
             /\ (Last(calls').op = "selectConfiguration") => Last(calls').arg = 1
             /\ (Last(calls').op # "selectConfiguration") =>
                    Last(calls').op = "claimInterface" /\ Last(calls').arg = ifnum
        /\ Resolves("selectConfiguration") =>
             /\ Len(calls') = Len(calls) + 1
             /\ Last(calls') = Call("claimInterface", target, ifnum)
    ]_vars

\* a print that claims again the interface an earlier call claimed, on a
\* device found open and with configuration 1 active
C8_Witness ==
    /\ caller = "print"
    /\ pc = "claimInterface"
    /\ Len(calls) = 1
    /\ usb[target].configuration = 1
    /\ calls[1].arg \in usb[target].claimed

\* C9: a failed step of openAndClaim aborts the operation: after open,
\* selectConfiguration or claimInterface threw, no further call is issued
\* (no select or claim after a failed open, no claim after a failed select,
\* no transfer at all); print then returns success=false with the message of
\* the transport error, and openAndClaim called on its own rejects.
C9_FailureAborts ==
    \A i \in DOMAIN calls :
        (/\ calls[i].op \in {"open", "selectConfiguration", "claimInterface"}
         /\ calls[i].result = "threw")
        => /\ i = Len(calls)
           /\ caller = "print" =>
                /\ pc = "returned"
                /\ outcome = [success |-> FALSE, error |-> <<calls[i].msg>>]
           /\ caller = "openAndClaim" => pc = "raised"

C9_Witness ==
    /\ caller = "print"
    /\ pc = "returned"
    /\ Len(calls) = 2
    /\ calls[1].op = "open"
    /\ calls[2].op = "selectConfiguration"
    /\ calls[2].result = "threw"

\* C10: disconnect() issues close exactly when the stored device is open,
\* and for every outcome of close the session ends with no stored device:
\* getDeviceInfo() then returns null.
C10_DisconnectClears ==
    [][
        /\ (Quiescent /\ dpc' # "idle") =>
             /\ (dpc' = "close") <=> (device # NoDevice /\ usb[device].opened)
             /\ (dpc' = "close") => calls' = <<Call("close", device, 0)>>
             /\ (dpc' # "close") => calls' = <<>>
        /\ dpc' \in {"resolved", "rejected"} =>
             /\ device' = NoDevice
             /\ getDeviceInfo' = Null
    ]_vars

\* C11: connect(device) only replaces the stored device reference: the step
\* issues no transport call and changes the transport state of no device, the
\* one replaced included, so a device opened before stays open though the
\* session no longer refers to it; the session refers to one device at most.
C11_ConnectOnlyStores ==
    [][
        /\ device' \in Devices \cup {NoDevice}
        /\ (Quiescent /\ pc' = "idle" /\ dpc' = "idle" /\ caller' = "none") =>
             /\ usb' = usb
             /\ calls' = <<>>
             /\ \A d \in Devices : usb[d].opened => usb'[d].opened
    ]_vars

\* connected to one device while another, opened by an earlier print, is
\* still open
C11_Witness ==
    /\ device \in Devices
    /\ pc = "idle"
    /\ dpc = "idle"
    /\ caller = "none"
    /\ calls = <<>>
    /\ \E d \in Devices \ {device} : usb[d].opened

\* number of calls of an operation in a log
Issued(log, name) == Cardinality({i \in DOMAIN log : log[i].op = name})

\* C19: print never retries: one print call issues the bulk transferOut once
\* at most and the priming controlTransferOut once at most, whatever the
\* calls return or throw; when the bulk transfer has settled, failed or not,
\* the call returns, and only a new print call issues a transfer again.
C19_NoRetry ==
    [][
        /\ caller' = "print" =>
             /\ Issued(calls', "transferOut") <= 1
             /\ Issued(calls', "controlTransferOut") <= 1
        /\ (caller = "print" /\ pc = "transferOut" /\ pc' # pc) => pc' = "returned"
        /\ (caller = "print" /\ pc = "controlTransferOut" /\ pc' # pc) =>
             pc' = "transferOut"
        /\ (pc = "returned" /\ pc' \in AwaitOps) => (calls' # <<>> /\ Len(calls') = 1)
    ]_vars

\* a print whose priming transfer and bulk transfer both threw
C19_Witness ==
    /\ caller = "print"
    /\ pc = "returned"
    /\ Issued(calls, "transferOut") = 1
    /\ Issued(calls, "controlTransferOut") = 1
    /\ \A i \in DOMAIN calls :
         calls[i].op \in {"controlTransferOut", "transferOut"} => calls[i].result = "threw"

\* C20: getDeviceInfo() returns null exactly when the session holds no
\* device, which is the case when none was connected and when disconnect ran
\* since the last connect; otherwise it returns vendorId, productId and the
\* names the device has, of the device connected last; print leaves what it
\* returns unchanged.
C20_DeviceInfo ==
    [][
        /\ (getDeviceInfo' = Null) <=> (device' = NoDevice)
        /\ dpc' \in {"resolved", "rejected"} => getDeviceInfo' = Null
        /\ device' # NoDevice =>
             /\ getDeviceInfo'.vendorId = Descriptor[device'].vendorId
             /\ getDeviceInfo'.productId = Descriptor[device'].productId
             /\ \A f \in {"productName", "manufacturerName", "serialNumber"} :
                  IF f \in DOMAIN Descriptor[device']
                  THEN getDeviceInfo'[f] = Descriptor[device'][f]
                  ELSE f \notin DOMAIN getDeviceInfo'
        /\ caller' = "print" => getDeviceInfo' = getDeviceInfo
    ]_vars

\* C23: no step of print changes the stored device or issues close or
\* releaseInterface; what a print call opened stays open and what it claimed
\* stays claimed when it returns, successful or not, and afterwards, until a
\* disconnect() closes the device; only disconnect() leaves the session
\* without a stored device.
C23_PrintKeepsDevice ==
    [][
        /\ caller' = "print" =>
             /\ device' = device
             /\ \A i \in DOMAIN calls' : calls'[i].op \notin {"close", "releaseInterface"}
             /\ \A d \in Devices :
                  /\ usb[d].opened => usb'[d].opened
                  /\ usb[d].claimed \subseteq usb'[d].claimed
        /\ (caller' = "print" /\ pc' = "returned") =>
             \A i \in DOMAIN calls' :
                  /\ (calls'[i].op = "open" /\ calls'[i].result = "ok") =>
                       usb'[calls'[i].dev].opened
                  /\ (calls'[i].op = "claimInterface" /\ calls'[i].result = "ok") =>
                       calls'[i].arg \in usb'[calls'[i].dev].claimed
        /\ \A d \in Devices :
             (\/ usb[d].opened /\ ~usb'[d].opened
              \/ ~(usb[d].claimed \subseteq usb'[d].claimed)) =>
                 (dpc = "close" /\ dpc' = "resolved" /\ Last(calls).dev = d)
        /\ (device # NoDevice /\ device' = NoDevice) =>
             (dpc' = "resolved" /\ dpc # "resolved")
    ]_vars

\* a print has failed at the bulk transfer, and the device it opened and the
\* interface it claimed are still open and claimed
C23_Witness ==
    /\ caller = "print"
    /\ pc = "returned"
    /\ ~outcome.success
    /\ device \in Devices
    /\ \E i \in DOMAIN calls : calls[i].op = "open" /\ calls[i].result = "ok"
    /\ \E i \in DOMAIN calls : calls[i].op = "transferOut" /\ calls[i].result = "threw"
    /\ usb[device].opened
    /\ usb[device].claimed # {}

-----------------------------------------------------------------------------
(* Properties of the encoder *)

\* C12: in the store-data frame qrCode emits for a payload of L bytes
\* (L + 3 < 65536), the length bytes are pL = (L + 3) mod 256 and
\* pH = floor((L + 3) / 256), both in 0..255, with pL + 256 * pH = L + 3,
\* in the buffer and in the bytes build() returns, also where (L mod 256) + 3
\* carries past 255.
C12_QrLength ==
    (nops >= 1 /\ lastOp.name \in {"qrCode", "build"}) =>
        LET L == Len(builderData) - 43
            frame == IF lastOp.name = "build" THEN Contents(built) ELSE builderData
            pL == frame[31]
            pH == frame[32]
        IN  L + 3 < 65536 =>
                /\ pL = (L + 3) % 256
                /\ pH = (L + 3) \div 256
                /\ pL \in 0..255
                /\ pH \in 0..255
                /\ pL + 256 * pH = L + 3

\* C13: the bytes build() returns begin with 0x1B 0x40 after construction
\* and after every sequence of encoder operations, reset included; no byte
\* comes before them.
C13_InitPrefix ==
    /\ Len(build(builderData).bytes) >= 2
    /\ build(builderData).bytes[1] = 27
    /\ build(builderData).bytes[2] = 64
    /\ built # NoArray =>
         /\ Len(Contents(built)) >= 2
         /\ Contents(built)[1] = 27
         /\ Contents(built)[2] = 64

C13_Witness ==
    /\ lastOp.name = "build"
    /\ nops >= 3
    /\ Len(Contents(built)) > 2

\* C14: build() only reads: the call leaves the buffer as it was and returns
\* its bytes, so a second build() in a row returns equal bytes; an array
\* build() returned keeps its contents through every later operation, reset
\* included.
C14_BuildReadsOnly ==
    [][
        /\ (lastOp'.name = "build" /\ nops' = nops + 1) =>
             /\ builderData' = builderData
             /\ Contents(built)' = Uint8Array(builderData)
             /\ lastOp.name = "build" => Contents(built)' = Contents(built)
        /\ (built # NoArray /\ nops' = nops + 1 /\ lastOp'.name # "build") =>
             Contents(built)' = Contents(built)
    ]_vars

\* an array returned before the buffer went on growing
C14_Witness ==
    /\ built # NoArray
    /\ lastOp.name \notin {"build", "reset"}
    /\ Len(Contents(built)) < Len(builderData)

\* C15: after reset() build() returns exactly 0x1B 0x40, what a new encoder
\* returns, and the operations called after reset() give the bytes they give
\* on a new encoder.
C15_ResetIsNew ==
    /\ lastOp.name = "reset" =>
         /\ build(builderData).bytes = <<27, 64>>
         /\ build(builderData) = build(NewBuilder)
    /\ build(builderData) = build(twin)

\* reset called on an encoder that had emitted more than its prefix
C15_Witness ==
    /\ lastOp.name = "reset"
    /\ Len(Contents(built)) > 2
    /\ builderData = <<27, 64>>

\* C16: align(a) appends 0x1B 0x61 a with LEFT=0, CENTER=1, RIGHT=2;
\* textSize(s) appends 0x1B 0x21 s with NORMAL=0x00, DOUBLE_HEIGHT=0x10,
\* DOUBLE_WIDTH=0x20, DOUBLE_BOTH=0x30; cut(t) appends 0x1D 0x56 t with
\* FULL=0, PARTIAL=1; the call appends nothing else.
C16_EnumCommands ==
    [][
        /\ TextAlign = [LEFT |-> 0, CENTER |-> 1, RIGHT |-> 2]
        /\ TextSize = [NORMAL |-> 0, DOUBLE_HEIGHT |-> 16, DOUBLE_WIDTH |-> 32,
                       DOUBLE_BOTH |-> 48]
        /\ CutType = [FULL |-> 0, PARTIAL |-> 1]
        /\ (nops' = nops + 1 /\ lastOp'.name = "align") =>
             builderData' = builderData \o <<27, 97, lastOp'.arg>>
        /\ (nops' = nops + 1 /\ lastOp'.name = "textSize") =>
             builderData' = builderData \o <<27, 33, lastOp'.arg>>
        /\ (nops' = nops + 1 /\ lastOp'.name = "cut") =>
             builderData' = builderData \o <<29, 86, lastOp'.arg>>
    ]_vars

C16_Witness ==
    /\ lastOp.name = "cut"
    /\ lastOp.arg = CutType.PARTIAL
    /\ nops >= 2
    /\ Len(builderData) >= 8
    /\ SubSeq(builderData, Len(builderData) - 5, Len(builderData)) =
           <<27, 97, 2, 29, 86, 1>>

\* s is an initial segment of t
IsPrefix(s, t) == Len(s) <= Len(t) /\ SubSeq(t, 1, Len(s)) = s

\* C21: the buffer only grows until reset: every operation other than build
\* and reset leaves what build() returned before it as a prefix of what
\* build() returns after it, an array returned earlier that was a prefix stays
\* one, and the operation returns the encoder it was called on; every byte
\* build() returns is in 0..255; feed(0) and text('') leave the buffer as it
\* was.
C21_AppendOnly ==
    [][
        /\ (nops' = nops + 1 /\ lastOp'.name \notin {"build", "reset"}) =>
             /\ IsPrefix(build(builderData).bytes, build(builderData').bytes)
             /\ IsPrefix(builderData, builderData')
             /\ (built # NoArray /\ IsPrefix(Contents(built), build(builderData).bytes)) =>
                  IsPrefix(Contents(built)', build(builderData').bytes)
             /\ returned' = "this"
        /\ \A i \in DOMAIN build(builderData').bytes :
             build(builderData').bytes[i] \in 0..255
        /\ (nops' = nops + 1 /\ lastOp'.name = "build") =>
             \A i \in DOMAIN Contents(built)' : Contents(built)'[i] \in 0..255
        /\ (nops' = nops + 1 /\ lastOp'.name = "feed" /\ lastOp'.arg = 0) =>
             builderData' = builderData
        /\ (nops' = nops + 1 /\ lastOp'.name = "text" /\ lastOp'.arg = <<>>) =>
             builderData' = builderData
    ]_vars

\* an operation has appended a number that does not fit a byte (barcode with
\* height 300), and the array build() returned afterwards holds bytes only
C21_Witness ==
    /\ lastOp.name = "build"
    /\ nops = 3
    /\ returned = "array"
    /\ Len(builderData) > 2
    /\ \E i \in DOMAIN builderData : builderData[i] > 255
    /\ \A i \in DOMAIN Contents(built) : Contents(built)[i] \in 0..255

-----------------------------------------------------------------------------
(* Properties of buildReceipt *)

\* the texts 'Subtotal: $', 'Tax: $', 'Tax:' and 'TOTAL: $'
SubtotalText == <<83, 117, 98, 116, 111, 116, 97, 108, 58, 32, 36>>

TaxText == <<84, 97, 120, 58, 32, 36>>

TaxWord == <<84, 97, 120, 58>>

TotalText == <<84, 79, 84, 65, 76, 58, 32, 36>>

\* the amounts named in the examples, as they are printed
Amount20_00 == <<50, 48, 46, 48, 48>>

Amount10_00 == <<49, 48, 46, 48, 48>>

Amount10_01 == <<49, 48, 46, 48, 49>>

Amount9_99 == <<57, 46, 57, 57>>

Amount0_01 == <<48, 46, 48, 49>>

Amount0_13 == <<48, 46, 49, 51>>

Amount0_25 == <<48, 46, 50, 53>>

\* the bytes pat occur in b
Occurs(b, pat) ==
    \E i \in 1..(Len(b) - Len(pat) + 1) : SubSeq(b, i, i + Len(pat) - 1) = pat

\* number of places of b where pat occurs
Count(b, pat) ==
    Cardinality({i \in 1..(Len(b) - Len(pat) + 1) : SubSeq(b, i, i + Len(pat) - 1) = pat})

\* the bytes of one printed line
PrintedLine(str) == TextEncoderEncode(str) \o <<10>>

\* subtotal after the first k items: the Number the additions give
RECURSIVE SubtotalOf(_, _)
SubtotalOf(items, k) ==
    IF k = 0 THEN Zero
    ELSE NumberPlus(SubtotalOf(items, k - 1),
                    NumberTimes(FromDecimal(items[k].quantity, 0),
                                FromDecimal(items[k].price.n, items[k].price.k)))

\* a numeral in thousandths, and the items' exact decimal sum in thousandths
Thousandths(numeral) == numeral.n * 10^(3 - numeral.k)

RECURSIVE ExactSubtotal(_, _)
ExactSubtotal(items, k) ==
    IF k = 0 THEN 0
    ELSE ExactSubtotal(items, k - 1) + items[k].quantity * Thousandths(items[k].price)

\* thousandths rounded to hundredths, half up
Round2(t) == (t + 5) \div 10

\* n hundredths written with two decimals
Fixed2(n) == Digits(n \div 100) \o <<46, 48 + ((n % 100) \div 10), 48 + (n % 10)>>

\* the amounts of the call are multiples of 1/8, which a Number holds exactly
ExactInBinary(args) ==
    /\ \A i \in DOMAIN args.items : Thousandths(args.items[i].price) % 125 = 0
    /\ Thousandths(args.tax) % 125 = 0

\* C17: buildReceipt emits one Subtotal line showing the sum over the items
\* of quantity * price, a "Tax:" line exactly when tax > 0, and one TOTAL
\* line showing subtotal + tax; one item {A, 2, 10.00} with tax 0 gives
\* "Subtotal: $20.00", no "Tax:" line and "TOTAL: $20.00".
C17_ReceiptTotals ==
    receipt.called =>
        LET a == receiptArgs
            b == receipt.bytes
            subtotal == SubtotalOf(a.items, Len(a.items))
            tax == FromDecimal(a.tax.n, a.tax.k)
        IN  /\ Count(b, <<10, 27, 97, 2>> \o TextEncoderEncode(SubtotalText)) = 1
            /\ Occurs(b, PrintedLine(SubtotalText \o toFixed2(subtotal)))
            /\ Count(b, <<10>> \o TextEncoderEncode(TaxWord)) =
                   IF a.tax.n > 0 THEN 1 ELSE 0
            /\ a.tax.n > 0 =>
                   Occurs(b, <<10>> \o PrintedLine(TaxText \o toFixed2(tax)))
            /\ Count(b, TextEncoderEncode(TotalText)) = 1
            /\ Occurs(b, PrintedLine(TotalText
                                         \o toFixed2(NumberPlus(subtotal, tax))))
            /\ ExactInBinary(a) =>
                 /\ Occurs(b, PrintedLine(SubtotalText
                        \o Fixed2(Round2(ExactSubtotal(a.items, Len(a.items))))))
                 /\ Occurs(b, PrintedLine(TotalText
                        \o Fixed2(Round2(ExactSubtotal(a.items, Len(a.items))
                                         + Thousandths(a.tax)))))
            /\ (/\ a.items = <<[name |-> <<65>>, quantity |-> 2, price |-> [n |-> 1000, k |-> 2]]>>
                /\ a.tax.n = 0)
               => /\ Occurs(b, PrintedLine(SubtotalText \o Amount20_00))
                  /\ ~Occurs(b, TextEncoderEncode(TaxWord))
                  /\ Occurs(b, PrintedLine(TotalText \o Amount20_00))

\* a receipt of two items, one of them with quantity 2, and a tax
C17_Witness ==
    /\ receipt.called
    /\ Len(receiptArgs.items) = 2
    /\ receiptArgs.items[1].quantity = 2
    /\ receiptArgs.tax.n > 0
    /\ Occurs(receipt.bytes, TextEncoderEncode(TaxText))

\* the receipt of one item {A, 1, 9.995} with tax 0.005
RoundingExample ==
    /\ receiptArgs.items = <<[name |-> <<65>>, quantity |-> 1, price |-> [n |-> 9995, k |-> 3]]>>
    /\ receiptArgs.tax = [n |-> 5, k |-> 3]

\* C18: amounts are accumulated exactly, in decimal, and rounded to two
\* decimals, half up, only when formatted: the subtotal displayed is
\* round2(sum of quantity * price), the tax round2(tax) and the total
\* round2(subtotal + tax); {A, 1, 9.995} with tax 0.005 displays subtotal
\* $10.00, tax $0.01 and total $10.01.
C18_DecimalRounding ==
    receipt.called =>
        LET a == receiptArgs
            b == receipt.bytes
            exact == ExactSubtotal(a.items, Len(a.items))
        IN  /\ Occurs(b, PrintedLine(SubtotalText \o Fixed2(Round2(exact))))
            /\ a.tax.n > 0 =>
                   Occurs(b, PrintedLine(TaxText
                                             \o Fixed2(Round2(Thousandths(a.tax)))))
            /\ Occurs(b, PrintedLine(TotalText
                                         \o Fixed2(Round2(exact + Thousandths(a.tax)))))
            /\ RoundingExample =>
                 /\ Occurs(b, PrintedLine(SubtotalText \o Amount10_00))
                 /\ Occurs(b, PrintedLine(TaxText \o Amount0_01))
                 /\ Occurs(b, PrintedLine(TotalText \o Amount10_01))

\* x < y for naturals held as digits
Less(x, y) ==
    \E i \in 0..(BitLen(y) - 1) :
        /\ Bit(y, i) = 1
        /\ Bit(x, i) = 0
        /\ \A j \in (i + 1)..(BitLen(x) + BitLen(y)) : Bit(x, j) = Bit(y, j)

\* n / 100 is the multiple of 1/100 nearest to the Number a, the larger of
\* two equally near: (2n - 1) / 2 <= 100 * a < (2n + 1) / 2
IsNearestHundredth(a, n) ==
    LET scale == IF a.e < 0 THEN -a.e ELSE 0
        m200 == MulSmall(Shl(a.m, a.e + scale), 200)
    IN  /\ n >= 0
        /\ n = 0 \/ ~Less(m200, Shl(Big(2 * n - 1), scale))
        /\ Less(m200, Shl(Big(2 * n + 1), scale))

\* the line `label` followed by the hundredths nearest to a is printed
ShowsNearest(b, label, a, about) ==
    \E n \in (about - 1)..(about + 1) :
        IsNearestHundredth(a, n) /\ Occurs(b, PrintedLine(label \o Fixed2(n)))

\* C18 as amended: amounts are accumulated unrounded as binary floating
\* point Numbers and rounded to two decimals only when formatted, to the
\* nearest hundredth of the binary value (the larger of two equally near):
\* the subtotal displayed is that of the sum of quantity * price, the total
\* that of subtotal + tax, not the sum of the amounts displayed;
\* {A, 1, 9.995} with tax 0.005 displays subtotal $9.99, tax $0.01 and total
\* $10.00.
C18_BinaryRounding ==
    receipt.called =>
        LET a == receiptArgs
            b == receipt.bytes
            exact == ExactSubtotal(a.items, Len(a.items))
            subtotal == SubtotalOf(a.items, Len(a.items))
            tax == FromDecimal(a.tax.n, a.tax.k)
        IN  /\ ShowsNearest(b, SubtotalText, subtotal, Round2(exact))
            /\ a.tax.n > 0 =>
                   ShowsNearest(b, TaxText, tax, Round2(Thousandths(a.tax)))
            /\ ShowsNearest(b, TotalText, NumberPlus(subtotal, tax),
                            Round2(exact + Thousandths(a.tax)))
            /\ RoundingExample =>
                 /\ Occurs(b, PrintedLine(SubtotalText \o Amount9_99))
                 /\ Occurs(b, PrintedLine(TaxText \o Amount0_01))
                 /\ Occurs(b, PrintedLine(TotalText \o Amount10_00))

\* a receipt whose total differs from the sum of the subtotal and the tax
\* it displays: 0.125 and 0.125 display as 0.13 and 0.13, their sum as 0.25
C18_Witness ==
    /\ receipt.called
    /\ receiptArgs.items = <<[name |-> <<65>>, quantity |-> 1, price |-> [n |-> 125, k |-> 3]]>>
    /\ receiptArgs.tax = [n |-> 125, k |-> 3]
    /\ Occurs(receipt.bytes, PrintedLine(SubtotalText \o Amount0_13))
    /\ Occurs(receipt.bytes, PrintedLine(TaxText \o Amount0_13))
    /\ Occurs(receipt.bytes, PrintedLine(TotalText \o Amount0_25))

\* the texts 'Thank you for your business!' and 'Visit us again soon'
ThankYouText ==
    <<84, 104, 97, 110, 107, 32, 121, 111, 117, 32, 102, 111, 114, 32, 121,
      111, 117, 114, 32, 98, 117, 115, 105, 110, 101, 115, 115, 33>>

VisitText ==
    <<86, 105, 115, 105, 116, 32, 117, 115, 32, 97, 103, 97, 105, 110,
      32, 115, 111, 111, 110>>

\* a printed rule of 32 characters c
Rule(c) == PrintedLine(Repeat(<<c>>, 32))

\* what the first k items put on the receipt: for each item, in list order,
\* its name line, right alignment, its line total, left alignment
RECURSIVE ItemSection(_, _)
ItemSection(items, k) ==
    IF k = 0 THEN <<>>
    ELSE ItemSection(items, k - 1)
           \o PrintedLine(itemLine(items[k]))
           \o <<27, 97, 2>>
           \o PrintedLine(<<36>> \o toFixed2(NumberTimes(FromDecimal(items[k].quantity, 0),
                                                         NumberOf(items[k].price))))
           \o <<27, 97, 0>>

\* C22: the bytes buildReceipt returns are, in this order, the header, which
\* starts with 0x1B 0x40; for each item in list order one name line and one
\* right-aligned line-total line, followed by a return to left alignment; the
\* totals; and the footer, whose last text line is followed by exactly three
\* line feeds and the full cut 0x1D 0x56 0x00, the last bytes of the stream;
\* no other cut command is in the stream.
C22_SectionOrder ==
    receipt.called =>
        LET b == receipt.bytes
            a == receiptArgs
            header == <<27, 64>> \o <<27, 97, 1>> \o <<27, 33, 48>> \o <<27, 69, 1>>
                        \o PrintedLine(a.storeName)
                        \o <<27, 69, 0>> \o <<27, 33, 0>>
                        \o PrintedLine(a.now) \o <<10>> \o Rule(61) \o <<27, 97, 0>>
            items == ItemSection(a.items, Len(a.items))
            totals == Rule(45) \o <<27, 97, 2>> \o TextEncoderEncode(SubtotalText)
            paid == <<27, 33, 0>> \o <<27, 69, 0>>
                      \o PrintedLine(<<80, 97, 121, 109, 101, 110, 116, 58, 32>> \o a.payment)
                      \o Rule(61)
            footer == <<27, 97, 1>> \o <<10>> \o PrintedLine(ThankYouText)
                        \o PrintedLine(VisitText) \o <<10, 10, 10>> \o <<29, 86, 0>>
            tail == paid \o footer
        IN  /\ IsPrefix(header \o items \o totals, b)
            /\ Len(b) >= Len(header \o items \o totals) + Len(tail)
            /\ SubSeq(b, Len(b) - Len(tail) + 1, Len(b)) = tail
            /\ Count(b, TextEncoderEncode(TotalText)) = 1
            /\ \E i \in (Len(header \o items \o totals) + 1)..(Len(b) - Len(tail)) :
                   SubSeq(b, i, i + 7) = TextEncoderEncode(TotalText)
            /\ Count(b, <<29, 86>>) = 1
            /\ Count(b, <<27, 64>>) = 1

\* a receipt of two different items
C22_Witness ==
    /\ receipt.called
    /\ Len(receiptArgs.items) = 2
    /\ receiptArgs.items[1] # receiptArgs.items[2]
    /\ SubSeq(receipt.bytes, Len(receipt.bytes) - 2, Len(receipt.bytes)) = <<29, 86, 0>>
    /\ Occurs(receipt.bytes, PrintedLine(itemLine(receiptArgs.items[1]))
                               \o <<27, 97, 2>>)

-----------------------------------------------------------------------------
(* Properties of the session with interleaved calls *)

\* C24: when connect or disconnect runs while a print call is suspended, the
\* priming control transfer and the bulk transfer of that call are issued only
\* to the device the call found the OUT endpoint on, which the call has
\* claimed an interface of, and the call returns an outcome: it never raises.
C24_TransfersToClaimed ==
    caller = "print" =>
        /\ pc # "raised"
        /\ \A i \in DOMAIN calls :
             calls[i].op \in {"controlTransferOut", "transferOut"} =>
                 /\ calls[i].dev = target
                 /\ \E j \in 1..(i - 1) :
                      /\ calls[j].op = "claimInterface"
                      /\ calls[j].dev = calls[i].dev
                      /\ calls[j].result = "ok"

====
